---- MODULE Spec2Model ----
(***************************************************************************)
(* The movie search core of src/lib/data-utils.ts: parseUserQuery turns a  *)
(* free-text query into a FilterSet, filterMovies keeps the records that   *)
(* satisfy a FilterSet, searchMovies combines both with an exact-title     *)
(* shortcut, an actor-aware path and a ranked title-only path.             *)
(*                                                                         *)
(* A JavaScript string is modelled as a sequence of one-character strings, *)
(* so that toLowerCase, includes, split, trim, String(number) and the      *)
(* regular expressions of parseUserQuery are computed character by         *)
(* character.  A movie list holds references (ids) to Movie objects, as a  *)
(* JavaScript array does.                                                   *)
(***************************************************************************)
EXTENDS Integers, Sequences, FiniteSets, TLC

(***************************************************************************)
(* Characters and the string methods the code calls.                       *)
(***************************************************************************)
LowerSeq == <<"a", "b", "c", "d", "e", "f", "g", "h", "i", "j", "k", "l", "m", "n", "o", "p", "q", "r", "s", "t", "u", "v", "w", "x", "y", "z">>
UpperSeq == <<"A", "B", "C", "D", "E", "F", "G", "H", "I", "J", "K", "L", "M", "N", "O", "P", "Q", "R", "S", "T", "U", "V", "W", "X", "Y", "Z">>
DigitSeq == <<"0", "1", "2", "3", "4", "5", "6", "7", "8", "9">>

LowerSet == {LowerSeq[i] : i \in 1..Len(LowerSeq)}
UpperSet == {UpperSeq[i] : i \in 1..Len(UpperSeq)}
DigitSet == {DigitSeq[i] : i \in 1..Len(DigitSeq)}
\* \s of a JavaScript regular expression, and the characters trim() strips.
WhiteSpace == {" "}
QuoteSet == {"\"", "'"}

LowerOf == [c \in UpperSet |-> LowerSeq[CHOOSE i \in 1..Len(UpperSeq) : UpperSeq[i] = c]]

ToLowerChar(c) == IF c \in UpperSet THEN LowerOf[c] ELSE c

\* String.prototype.toLowerCase
ToLowerCase(s) == [i \in 1..Len(s) |-> ToLowerChar(s[i])]

\* String.prototype.includes: sub occurs in s at some offset ("" always does).
Includes(s, sub) ==
  \E i \in 1..(Len(s) - Len(sub) + 1) : SubSeq(s, i, i + Len(sub) - 1) = sub

\* String.prototype.split with a one-character separator: "".split("|") is [""].
RECURSIVE Split(_, _)
Split(s, sep) ==
  LET hits == {i \in 1..Len(s) : s[i] = sep}
  IN  IF hits = {} THEN <<s>>
      ELSE LET i == CHOOSE j \in hits : \A h \in hits : j <= h
           IN  <<SubSeq(s, 1, i - 1)>> \o Split(SubSeq(s, i + 1, Len(s)), sep)

\* String.prototype.trim
Trim(s) ==
  LET keep == {i \in 1..Len(s) : s[i] \notin WhiteSpace}
  IN  IF keep = {} THEN <<>>
      ELSE SubSeq(s, CHOOSE i \in keep : \A j \in keep : i <= j,
                     CHOOSE i \in keep : \A j \in keep : j <= i)

\* String(n) for a non-negative integer n: its decimal digits.
RECURSIVE NumberToString(_)
NumberToString(n) ==
  IF n < 10 THEN <<DigitSeq[n + 1]>>
  ELSE NumberToString(n \div 10) \o <<DigitSeq[(n % 10) + 1]>>

(***************************************************************************)
(* Regular expressions.  A pattern is a tree of nodes, matched as a        *)
(* backtracking matcher does: Backtrack(todo, s, i, g) matches the nodes   *)
(* of todo one after the other from position i of s, trying a greedy       *)
(* quantifier's longer match first and alternatives left to right, and     *)
(* returns the first success <<end, group start, group end>>, or NoMatch.  *)
(* All patterns of the code carry the i flag, so literals compare          *)
(* case-insensitively.                                                     *)
(***************************************************************************)
Lit(s) == [k |-> "lit", s |-> s]
Cls(c) == [k |-> "cls", c |-> c]
Alt(a) == [k |-> "alt", a |-> a]
Cat(a) == [k |-> "cat", a |-> a]
Opt(r) == [k |-> "opt", r |-> r]
Star(r) == [k |-> "star", r |-> r]
Plus(r) == Cat(<<r, Star(r)>>)
Rep(r, n) == Cat([i \in 1..n |-> r])
\* (r): the one capture group of a pattern
Group(r) == Cat(<<[k |-> "open"], r, [k |-> "close"]>>)
\* an iteration of * that consumed nothing is not repeated
Moved(i) == [k |-> "moved", i |-> i]

NoMatch == <<>>

LitAt(lit, s, i) ==
  /\ i + Len(lit) - 1 <= Len(s)
  /\ \A j \in 1..Len(lit) : ToLowerChar(s[i + j - 1]) = ToLowerChar(lit[j])

RECURSIVE Backtrack(_, _, _, _)
Backtrack(todo, s, i, g) ==
  IF Len(todo) = 0 THEN <<i, g[1], g[2]>>
  ELSE
    LET r == Head(todo)
        rest == Tail(todo)
    IN  CASE r.k = "lit" ->
               IF LitAt(r.s, s, i) THEN Backtrack(rest, s, i + Len(r.s), g) ELSE NoMatch
          [] r.k = "cls" ->
               IF i <= Len(s) /\ s[i] \in r.c THEN Backtrack(rest, s, i + 1, g) ELSE NoMatch
          [] r.k = "cat" -> Backtrack(r.a \o rest, s, i, g)
          [] r.k = "alt" ->
               IF Len(r.a) = 0 THEN NoMatch
               ELSE LET m == Backtrack(<<Head(r.a)>> \o rest, s, i, g)
                    IN  IF m # NoMatch THEN m
                        ELSE Backtrack(<<Alt(Tail(r.a))>> \o rest, s, i, g)
          [] r.k = "opt" ->
               LET m == Backtrack(<<r.r>> \o rest, s, i, g)
               IN  IF m # NoMatch THEN m ELSE Backtrack(rest, s, i, g)
          [] r.k = "star" ->
               LET m == Backtrack(<<r.r, Moved(i), r>> \o rest, s, i, g)
               IN  IF m # NoMatch THEN m ELSE Backtrack(rest, s, i, g)
          [] r.k = "moved" -> IF i > r.i THEN Backtrack(rest, s, i, g) ELSE NoMatch
          [] r.k = "open" -> Backtrack(rest, s, i, <<i, g[2]>>)
          [] r.k = "close" -> Backtrack(rest, s, i, <<g[1], i>>)

\* null, the result of match() when the pattern occurs nowhere.
Null == <<>>

\* String.prototype.match without the g flag: the leftmost match, as the match
\* array <<whole match, group 1>>, or Null.
RECURSIVE MatchFrom(_, _, _)
MatchFrom(re, s, i) ==
  IF i > Len(s) + 1 THEN Null
  ELSE LET m == Backtrack(<<re>>, s, i, <<0, 0>>)
       IN  IF m # NoMatch
           THEN <<SubSeq(s, i, m[1] - 1), SubSeq(s, m[2], m[3] - 1)>>
           ELSE MatchFrom(re, s, i + 1)

StringMatch(s, re) == MatchFrom(re, s, 1)

(***************************************************************************)
(* The eight patterns of parseUserQuery.                                   *)
(***************************************************************************)
Spaces == Star(Cls(WhiteSpace))
OptQuote == Opt(Cls(QuoteSet))
\* [a-zA-Z\s] and [a-zA-Z0-9\s]
AlphaSpace == Cls(LowerSet \cup UpperSet \cup WhiteSpace)
AlnumSpace == Cls(LowerSet \cup UpperSet \cup DigitSet \cup WhiteSpace)
\* (?:is|=|:)
IsConnector == Alt(<<Lit(<<"i", "s">>), Lit(<<"=">>), Lit(<<":">>)>>)

GenreRegExp ==
  Cat(<<Lit(<<"g", "e", "n", "r", "e">>), Opt(Lit(<<"s">>)), Spaces,
        Opt(Alt(<<Lit(<<"i", "s">>), Lit(<<"a", "r", "e">>), Lit(<<"=">>), Lit(<<":">>)>>)),
        Spaces, OptQuote,
        Group(Plus(AlphaSpace)), OptQuote>>)

TitleRegExp ==
  Cat(<<Alt(<<Lit(<<"m", "o", "v", "i", "e">>), Lit(<<"f", "i", "l", "m">>), Lit(<<"t", "i", "t", "l", "e">>)>>), Spaces,
        Opt(Alt(<<Lit(<<"n", "a", "m", "e">>), Lit(<<"c", "a", "l", "l", "e", "d">>), Lit(<<"t", "i", "t", "l", "e", "d">>),
                  Lit(<<"i", "s">>), Lit(<<"=">>), Lit(<<":">>)>>)),
        Spaces, OptQuote,
        Group(Plus(AlnumSpace)), OptQuote>>)

DirectorRegExp ==
  Cat(<<Lit(<<"d", "i", "r", "e", "c", "t", "o", "r">>), Spaces, Opt(IsConnector), Spaces, OptQuote,
        Group(Plus(AlphaSpace)), OptQuote>>)

ActorRegExp ==
  Cat(<<Alt(<<Lit(<<"a", "c", "t", "o", "r">>), Lit(<<"s", "t", "a", "r">>), Lit(<<"c", "a", "s", "t">>)>>), Spaces,
        Opt(IsConnector), Spaces, OptQuote,
        Group(Plus(AlphaSpace)), OptQuote>>)

YearRegExp ==
  Cat(<<Alt(<<Lit(<<"y", "e", "a", "r">>), Lit(<<"r", "e", "l", "e", "a", "s", "e", "d">>), Lit(<<"f", "r", "o", "m">>)>>), Spaces,
        Opt(Alt(<<Lit(<<"i", "n">>), Lit(<<"=">>), Lit(<<":">>)>>)), Spaces,
        Group(Rep(Cls(DigitSet), 4))>>)

CountryRegExp ==
  Cat(<<Alt(<<Lit(<<"c", "o", "u", "n", "t", "r", "y">>), Lit(<<"f", "r", "o", "m">>)>>), Spaces,
        Opt(IsConnector), Spaces, OptQuote,
        Group(Plus(AlphaSpace)), OptQuote>>)

LanguageRegExp ==
  Cat(<<Alt(<<Lit(<<"l", "a", "n", "g", "u", "a", "g", "e">>), Lit(<<"i", "n">>)>>), Spaces,
        Opt(IsConnector), Spaces, OptQuote,
        Group(Plus(AlphaSpace)), OptQuote>>)

KeywordRegExp ==
  Cat(<<Alt(<<Lit(<<"k", "e", "y", "w", "o", "r", "d">>), Lit(<<"a", "b", "o", "u", "t">>), Lit(<<"p", "l", "o", "t">>), Lit(<<"t", "h", "e", "m", "e">>)>>),
        Spaces, Opt(IsConnector), Spaces, OptQuote,
        Group(Plus(AlphaSpace)), OptQuote>>)

commonGenres ==
  <<<<"a", "c", "t", "i", "o", "n">>, <<"c", "o", "m", "e", "d", "y">>, <<"d", "r", "a", "m", "a">>, <<"h", "o", "r", "r", "o", "r">>, <<"s", "c", "i", "-", "f", "i">>, <<"t", "h", "r", "i", "l", "l", "e", "r">>,
    <<"r", "o", "m", "a", "n", "c", "e">>, <<"a", "d", "v", "e", "n", "t", "u", "r", "e">>, <<"f", "a", "n", "t", "a", "s", "y">>>>

(***************************************************************************)
(* FilterSet: a function from field names to strings.  Object.entries and  *)
(* Object.keys range over its domain.                                      *)
(***************************************************************************)
NoFilters == [f \in {} |-> <<>>]

\* filters.key = value
SetField(filters, key, value) == (key :> value) @@ filters

\* delete filters.key
DeleteField(filters, key) == [f \in DOMAIN filters \ {key} |-> filters[f]]

\* A variant of the assignment that stores the capture as matched.
StoreGroup_Untrimmed(filters, key, m) ==
  IF m # Null /\ m[2] # <<>> THEN SetField(filters, key, m[2]) ELSE filters

\* A variant of the assignment in which the country extractor takes the text
\* the year extractor matched: storing a country removes release_year.
StoreGroup_CountryTakesYear(filters, key, m) ==
  IF m # Null /\ m[2] # <<>>
  THEN IF key = "country"
       THEN SetField(DeleteField(filters, "release_year"), key, Trim(m[2]))
       ELSE SetField(filters, key, Trim(m[2]))
  ELSE filters

\* if (m && m[1]) filters.key = m[1].trim()
StoreGroup(filters, key, m) ==
  IF m # Null /\ m[2] # <<>> THEN SetField(filters, key, Trim(m[2])) ELSE filters

\* The eight extractors, in the order the code runs them.
Extractors ==
  <<[re |-> GenreRegExp, key |-> "genre"],
    [re |-> TitleRegExp, key |-> "movie_name"],
    [re |-> DirectorRegExp, key |-> "director_name"],
    [re |-> ActorRegExp, key |-> "actors"],
    [re |-> YearRegExp, key |-> "release_year"],
    [re |-> CountryRegExp, key |-> "country"],
    [re |-> LanguageRegExp, key |-> "language"],
    [re |-> KeywordRegExp, key |-> "plot_keyword"]>>

\* filters after the first n extractors have run on query
RECURSIVE RunExtractors(_, _)
RunExtractors(query, n) ==
  IF n = 0 THEN NoFilters
  ELSE StoreGroup(RunExtractors(query, n - 1), Extractors[n].key,
                  StringMatch(query, Extractors[n].re))

\* A variant of the fallback that always guesses a title.
GeneralTerm_AlwaysTitle(filters, query, searchTerm) ==
  IF DOMAIN filters = {} /\ searchTerm # <<>>
  THEN SetField(filters, "movie_name", searchTerm)
  ELSE filters

\* A variant of the fallback that tests the query as typed, not trimmed.
GeneralTerm_Untrimmed(filters, query, searchTerm) ==
  IF DOMAIN filters = {} /\ query # <<>>
  THEN SetField(filters, "movie_name", searchTerm)
  ELSE filters

\* The fallback: with no field extracted and a non-blank query, the trimmed
\* query becomes a genre filter or a title filter.
GeneralTerm(filters, query, searchTerm) ==
  IF DOMAIN filters = {} /\ searchTerm # <<>>
  THEN IF \E g \in 1..Len(commonGenres) :
            Includes(ToLowerCase(searchTerm), commonGenres[g])
       THEN SetField(filters, "genre", searchTerm)
       ELSE SetField(filters, "movie_name", searchTerm)
  ELSE filters

parseUserQuery(query) ==
  GeneralTerm(RunExtractors(query, Len(Extractors)), query, Trim(query))

(***************************************************************************)
(* Movie objects (interface Movie of db-service.ts).  String fields hold   *)
(* strings, the number fields hold integers, poster_url is optional.       *)
(* imdb_score, a fraction, is left out: no FilterSet below names it.       *)
(***************************************************************************)
NumberFields == {"movie_duration", "budget", "release_year"}

Heap ==
  <<[movie_id |-> <<"1">>, movie_name |-> <<"H", "e", "a", "t">>, movie_duration |-> 170,
     plot_keyword |-> <<"h", "e", "i", "s", "t", "|", "d", "e", "t", "e", "c", "t", "i", "v", "e">>, language |-> <<"E", "n", "g", "l", "i", "s", "h">>,
     country |-> <<"U", "S", "A">>, budget |-> 60000000, release_year |-> 1995,
     movie_certification |-> <<"R">>, genre |-> <<"A", "c", "t", "i", "o", "n", "|", "C", "r", "i", "m", "e", "|", "D", "r", "a", "m", "a">>,
     producer_name |-> <<"A", "r", "t", " ", "L", "i", "n", "s", "o", "n">>, award_name |-> <<"N", "o", "n", "e">>,
     director_name |-> <<"M", "i", "c", "h", "a", "e", "l", " ", "M", "a", "n", "n">>, actors |-> <<"A", "l", " ", "P", "a", "c", "i", "n", "o", "|", "V", "a", "l", " ", "K", "i", "l", "m", "e", "r">>,
     reviewer_name |-> <<"R", "o", "g", "e", "r", " ", "E", "b", "e", "r", "t">>, songs |-> <<"N", "o", "n", "e">>,
     poster_url |-> <<"/", "h", "e", "a", "t", ".", "j", "p", "g">>],
    [movie_id |-> <<"2">>, movie_name |-> <<"H", "e", "a", "t">>, movie_duration |-> 101,
     plot_keyword |-> <<"g", "a", "m", "b", "l", "i", "n", "g", "|", "b", "o", "d", "y", "g", "u", "a", "r", "d">>, language |-> <<"E", "n", "g", "l", "i", "s", "h">>,
     country |-> <<"U", "S", "A">>, budget |-> 0, release_year |-> 1986,
     movie_certification |-> <<"R">>, genre |-> <<"A", "c", "t", "i", "o", "n", "|", "D", "r", "a", "m", "a", "|", "T", "h", "r", "i", "l", "l", "e", "r">>,
     producer_name |-> <<"E", "l", "l", "i", "o", "t", "t", " ", "K", "a", "s", "t", "n", "e", "r">>, award_name |-> <<>>,
     director_name |-> <<"D", "i", "c", "k", " ", "R", "i", "c", "h", "a", "r", "d", "s">>, actors |-> <<"B", "u", "r", "t", " ", "R", "e", "y", "n", "o", "l", "d", "s">>,
     reviewer_name |-> <<"G", "e", "n", "e", " ", "S", "i", "s", "k", "e", "l">>, songs |-> <<"N", "o", "n", "e">>],
    [movie_id |-> <<"3">>, movie_name |-> <<"T", "h", "e", " ", "H", "e", "a", "t">>, movie_duration |-> 117,
     plot_keyword |-> <<"p", "o", "l", "i", "c", "e", "|", "p", "a", "r", "t", "n", "e", "r">>, language |-> <<"E", "n", "g", "l", "i", "s", "h">>,
     country |-> <<"U", "S", "A">>, budget |-> 43000000, release_year |-> 2013,
     movie_certification |-> <<"R">>, genre |-> <<"A", "c", "t", "i", "o", "n", "|", "C", "o", "m", "e", "d", "y", "|", "C", "r", "i", "m", "e">>,
     producer_name |-> <<"P", "e", "t", "e", "r", " ", "C", "h", "e", "r", "n", "i", "n">>, award_name |-> <<"N", "o", "n", "e">>,
     director_name |-> <<"P", "a", "u", "l", " ", "F", "e", "i", "g">>, actors |-> <<"S", "a", "n", "d", "r", "a", " ", "B", "u", "l", "l", "o", "c", "k", "|", "A", "l", " ", "M", "a", "d", "r", "i", "g", "a", "l">>,
     reviewer_name |-> <<"R", "o", "g", "e", "r", " ", "E", "b", "e", "r", "t">>, songs |-> <<"F", "i", "g", "h", "t", " ", "t", "h", "e", " ", "P", "o", "w", "e", "r">>,
     poster_url |-> <<"/", "t", "h", "e", "-", "h", "e", "a", "t", ".", "j", "p", "g">>],
    [movie_id |-> <<"4">>, movie_name |-> <<"T", "h", "e", " ", "H", "e", "a", "t", " ", "W", "a", "v", "e">>, movie_duration |-> 92,
     plot_keyword |-> <<"r", "i", "o", "t", "|", "j", "o", "u", "r", "n", "a", "l", "i", "s", "t">>, language |-> <<"E", "n", "g", "l", "i", "s", "h">>,
     country |-> <<"U", "S", "A">>, budget |-> 0, release_year |-> 1995,
     movie_certification |-> <<"P", "G">>, genre |-> <<"D", "r", "a", "m", "a">>,
     producer_name |-> <<"J", "o", "n", " ", "A", "v", "n", "e", "t">>, award_name |-> <<"N", "o", "n", "e">>,
     director_name |-> <<"K", "e", "v", "i", "n", " ", "H", "o", "o", "k", "s">>, actors |-> <<"B", "l", "a", "i", "r", " ", "U", "n", "d", "e", "r", "w", "o", "o", "d", "|", "C", "i", "c", "e", "l", "y", " ", "T", "y", "s", "o", "n">>,
     reviewer_name |-> <<"G", "e", "n", "e", " ", "S", "i", "s", "k", "e", "l">>, songs |-> <<"N", "o", "n", "e">>]>>

MovieRefs == 1..Len(Heap)

\* movieValue === undefined, for movieValue = movie[key]
IsUndefined(movie, key) == key \notin DOMAIN Heap[movie]

\* !movieValue: undefined, the number 0 and the empty string are falsy.
IsFalsy(movie, key) ==
  \/ IsUndefined(movie, key)
  \/ key \in NumberFields /\ Heap[movie][key] = 0
  \/ key \notin NumberFields /\ Heap[movie][key] = <<>>

\* String(movieValue), for a field that is present
StringOf(movie, key) ==
  IF key \in NumberFields THEN NumberToString(Heap[movie][key]) ELSE Heap[movie][key]

\* values.some((v) => v.includes(needle))
SomeIncludes(values, needle) == \E i \in 1..Len(values) : Includes(values[i], needle)

(***************************************************************************)
(* filterMovies                                                            *)
(***************************************************************************)
\* A variant of the callback that compares genre and plot_keyword as scalars.
MatchesEntry_Scalar(movie, key, value) ==
  IF value = <<>> THEN TRUE
  ELSE IF IsUndefined(movie, key) THEN FALSE
  ELSE Includes(ToLowerCase(StringOf(movie, key)), ToLowerCase(value))

\* A variant of the callback that looks for the field before it looks at the
\* value.
MatchesEntry_FieldFirst(movie, key, value) ==
  IF IsUndefined(movie, key) THEN FALSE
  ELSE IF value = <<>> THEN TRUE
  ELSE IF key \in {"genre", "plot_keyword"}
       THEN SomeIncludes(Split(ToLowerCase(StringOf(movie, key)), "|"), ToLowerCase(value))
       ELSE Includes(ToLowerCase(StringOf(movie, key)), ToLowerCase(value))

\* A variant of the callback that lets a record without the field pass.
MatchesEntry_AbsentPasses(movie, key, value) ==
  IF value = <<>> THEN TRUE
  ELSE IF IsUndefined(movie, key) THEN TRUE
  ELSE IF key \in {"genre", "plot_keyword"}
       THEN SomeIncludes(Split(ToLowerCase(StringOf(movie, key)), "|"), ToLowerCase(value))
       ELSE Includes(ToLowerCase(StringOf(movie, key)), ToLowerCase(value))

\* The callback of every(): does movie pass the entry key: value?
MatchesEntry(movie, key, value) ==
  IF value = <<>> THEN TRUE
  ELSE IF IsUndefined(movie, key) THEN FALSE
  ELSE IF key \in {"genre", "plot_keyword"}
       THEN SomeIncludes(Split(ToLowerCase(StringOf(movie, key)), "|"), ToLowerCase(value))
       ELSE Includes(ToLowerCase(StringOf(movie, key)), ToLowerCase(value))

\* A variant of filterMovies with an exact-title shortcut: under a title
\* filter alone it keeps the records with that very title when there are any.
filterMovies_Shortcut(list, filters) ==
  LET kept == SelectSeq(list, LAMBDA movie :
                \A key \in DOMAIN filters : MatchesEntry(movie, key, filters[key]))
      exact == SelectSeq(kept, LAMBDA movie :
                 ToLowerCase(Heap[movie].movie_name) = ToLowerCase(filters["movie_name"]))
  IN  IF DOMAIN filters = {"movie_name"} /\ exact # <<>> THEN exact ELSE kept

\* A variant of filterMovies with some() in place of every().
filterMovies_Some(list, filters) ==
  SelectSeq(list, LAMBDA movie :
    \E key \in DOMAIN filters : MatchesEntry(movie, key, filters[key]))

\* A variant of filterMovies that returns the matches last to first.
filterMovies_Reversed(list, filters) ==
  LET kept == SelectSeq(list, LAMBDA movie :
                \A key \in DOMAIN filters : MatchesEntry(movie, key, filters[key]))
  IN  [k \in 1..Len(kept) |-> kept[Len(kept) + 1 - k]]

filterMovies(list, filters) ==
  SelectSeq(list, LAMBDA movie :
    \A key \in DOMAIN filters : MatchesEntry(movie, key, filters[key]))

(***************************************************************************)
(* searchMovies                                                            *)
(***************************************************************************)
\* A variant of the lookup without the test "if (exactMatch)": it wraps what
\* find() gave, a record or undefined (written 0), in a list.
FindExactMatch_Unchecked(list, query) ==
  LET hits == {i \in 1..Len(list) :
                 ToLowerCase(Heap[list[i]].movie_name) = ToLowerCase(query)}
  IN  IF hits = {} THEN <<0>>
      ELSE <<list[CHOOSE i \in hits : \A j \in hits : i <= j]>>

\* A variant of the lookup that yields the last record with the title, as
\* a scan from the end of the catalog would.
FindExactMatch_Last(list, query) ==
  LET hits == {i \in 1..Len(list) :
                 ToLowerCase(Heap[list[i]].movie_name) = ToLowerCase(query)}
  IN  IF hits = {} THEN <<>>
      ELSE <<list[CHOOSE i \in hits : \A j \in hits : i >= j]>>

\* movies.find(...): the first record whose lower-cased title is the
\* lower-cased query, as a list of at most one record.
FindExactMatch(list, query) ==
  LET hits == {i \in 1..Len(list) :
                 ToLowerCase(Heap[list[i]].movie_name) = ToLowerCase(query)}
  IN  IF hits = {} THEN <<>>
      ELSE <<list[CHOOSE i \in hits : \A j \in hits : i <= j]>>

\* The every() callback inside the actor branch.
MatchesOtherFilter(movie, key, value) ==
  IF value = <<>> THEN TRUE
  ELSE IF IsFalsy(movie, key) THEN FALSE
  ELSE IF key \in {"genre", "plot_keyword"}
       THEN SomeIncludes(Split(ToLowerCase(StringOf(movie, key)), "|"), ToLowerCase(value))
       ELSE Includes(ToLowerCase(StringOf(movie, key)), ToLowerCase(value))

\* A variant of the actor branch that leaves the actor name unchecked.
ActorSearch_AnyActor(list, filters, actorName) ==
  SelectSeq(list, LAMBDA movie :
    \A key \in DOMAIN filters : MatchesOtherFilter(movie, key, filters[key]))

ActorSearch(list, filters, actorName) ==
  SelectSeq(list, LAMBDA movie :
    /\ \A key \in DOMAIN filters : MatchesOtherFilter(movie, key, filters[key])
    /\ Includes(ToLowerCase(Heap[movie].actors), ToLowerCase(actorName)))

\* A variant of the comparator that ranks longer titles first.
CompareTitles_LongerFirst(a, b, title) ==
  LET aExact == ToLowerCase(Heap[a].movie_name) = ToLowerCase(title)
      bExact == ToLowerCase(Heap[b].movie_name) = ToLowerCase(title)
  IN  IF aExact /\ ~bExact THEN -1
      ELSE IF ~aExact /\ bExact THEN 1
      ELSE Len(Heap[b].movie_name) - Len(Heap[a].movie_name)

\* The comparator of the title-only sort: negative when a goes first.
CompareTitles(a, b, title) ==
  LET aExact == ToLowerCase(Heap[a].movie_name) = ToLowerCase(title)
      bExact == ToLowerCase(Heap[b].movie_name) = ToLowerCase(title)
  IN  IF aExact /\ ~bExact THEN -1
      ELSE IF ~aExact /\ bExact THEN 1
      ELSE Len(Heap[a].movie_name) - Len(Heap[b].movie_name)

\* Array.prototype.sort is stable: insertion of each element, left to right,
\* behind the elements it does not precede.
RECURSIVE InsertSorted(_, _, _)
InsertSorted(x, sorted, title) ==
  IF sorted = <<>> THEN <<x>>
  ELSE IF CompareTitles(x, Head(sorted), title) < 0 THEN <<x>> \o sorted
  ELSE <<Head(sorted)>> \o InsertSorted(x, Tail(sorted), title)

RECURSIVE SortTitles(_, _)
SortTitles(list, title) ==
  IF list = <<>> THEN <<>>
  ELSE InsertSorted(list[Len(list)], SortTitles(SubSeq(list, 1, Len(list) - 1), title), title)

\* A variant of the title-only branch that puts the records with the exact
\* title in front of all the matches, without taking them out of the rest.
TitleSearch_ExactPrepended(list, title) ==
  SelectSeq(list, LAMBDA movie :
    ToLowerCase(Heap[movie].movie_name) = ToLowerCase(title))
  \o SelectSeq(list, LAMBDA movie :
       Includes(ToLowerCase(Heap[movie].movie_name), ToLowerCase(title)))

\* A variant of the title-only branch that filters and does not sort.
TitleSearch_Unsorted(list, title) ==
  SelectSeq(list, LAMBDA movie :
    Includes(ToLowerCase(Heap[movie].movie_name), ToLowerCase(title)))

TitleSearch(list, title) ==
  SortTitles(SelectSeq(list, LAMBDA movie :
               Includes(ToLowerCase(Heap[movie].movie_name), ToLowerCase(title))),
             title)

\* A variant of the title-only branch that sorts the caller's list before it
\* filters it.
TitleSearchLeaves_SortedInPlace(list, title) == SortTitles(list, title)

\* The caller's list after the title-only branch: movies.filter() builds
\* the new array titleMatches, and sort() reorders titleMatches in place,
\* so movies keeps its order.
TitleSearchLeaves(list, title) == list

\* filters.key is truthy: present and not the empty string.
IsSet(filters, key) == key \in DOMAIN filters /\ filters[key] # <<>>

(***************************************************************************)
(* Inputs.                                                                 *)
(***************************************************************************)
\* A catalog holds at most MaxMovies records, a query at most MaxQueryLen
\* characters, a FilterSet passed to filterMovies at most MaxFilters entries.
MaxMovies == 3
MaxQueryLen == 20
MaxFilters == 2

\* Catalogs: lists of distinct Movie objects, in any order.
Catalogs ==
  {c \in UNION {[1..n -> MovieRefs] : n \in 0..MaxMovies} :
     \A i, j \in 1..Len(c) : i # j => c[i] # c[j]}

\* Queries: words separated by single spaces.
QueryWords ==
  {<<"H", "E", "A", "T">>, <<"t", "h", "e">>, <<"M", "o", "v", "i", "e">>, <<"a", "c", "t", "o", "r">>, <<"a", "l">>, <<"p", "a", "c", "i", "n", "o">>, <<"y", "e", "a", "r", ":", "1", "9", "9", "5">>, <<"d", "r", "a", "m", "a">>, <<"H", "E", "A", "T", "'">>}

RECURSIVE QueriesUpTo(_)
QueriesUpTo(n) ==
  IF n < 0 THEN {}
  ELSE {<<>>} \cup {w \in QueryWords : Len(w) <= n}
       \cup UNION {{w \o <<" ">> \o q : q \in QueriesUpTo(n - Len(w) - 1) \ {<<>>}} :
                     w \in QueryWords}

\* Queries of white space only.
BlankQueries == {<<" ">>, <<" ", " ">>}

Queries == QueriesUpTo(MaxQueryLen) \cup BlankQueries

\* Queries handed to parseUserQuery alone: one clause "trigger connector
\* value" with every choice of spacing and quoting around its parts, each
\* part possibly missing.
ClauseLead == {<<>>, <<" ">>}
ClauseTrigger == {<<>>, <<"y", "e", "a", "r">>, <<"f", "r", "o", "m">>, <<"a", "c", "t", "o", "r">>, <<"d", "i", "r", "e", "c", "t", "o", "r">>, <<"r", "e", "l", "e", "a", "s", "e", "d", " ", "i", "n">>}
ClauseConnector == {<<>>, <<"i", "s">>, <<"=">>, <<":">>}
ClauseQuote == {<<>>, <<"'">>, <<"\"", " ">>}
ClauseClose == {<<>>, <<"'">>}
ClauseValue == {<<>>, <<"1", "9", "9", "5">>, <<"a", "l">>, <<"d", "r", "a", "m", "a">>}

ParseQueries ==
  {lead \o trigger \o sp1 \o connector \o sp2 \o q1 \o value \o q2 \o trail :
     lead \in ClauseLead, trigger \in ClauseTrigger, sp1 \in ClauseLead,
     connector \in ClauseConnector, sp2 \in ClauseLead, q1 \in ClauseQuote,
     value \in ClauseValue, q2 \in ClauseClose, trail \in ClauseLead}

\* Queries of several words: two field clauses one after the other, and words
\* that hold the letters of a trigger word inside them.
PhraseQueries ==
  {<<"d", "i", "r", "e", "c", "t", "o", "r", " ", "a", "l", " ", "y", "e", "a", "r", " ", "1", "9", "9", "5">>, <<"g", "e", "n", "r", "e", " ", "d", "r", "a", "m", "a", " ", "d", "i", "r", "e", "c", "t", "o", "r", " ", "a", "l">>,
   <<"I", "n", "t", "e", "r", "s", "t", "e", "l">>, <<"m", "o", "v", "i", "e", " ", "I", "n", "c", "e", "p", "t", "i", "o", "n">>}

\* FilterSets handed to filterMovies directly: any field names, among them an
\* optional field and a name no record has.
FilterFields == {"genre", "release_year", "poster_url", "tagline"}
FilterValues == {<<>>, <<"A">>, <<"|">>, <<"9">>}

FilterSets(n) ==
  UNION {[S -> FilterValues] : S \in {T \in SUBSET FilterFields : Cardinality(T) <= n}}

\* A variant of the branches that ranks by title whenever the parsed FilterSet
\* has a title, before it looks for an actor.
SearchBranches_TitleFirst(list, exactMatch, parsed) ==
  IF exactMatch # <<>>
  THEN [result |-> exactMatch, filters |-> NoFilters, branch |-> "exact", list |-> list]
  ELSE IF IsSet(parsed, "movie_name")
  THEN [result |-> TitleSearch(list, parsed.movie_name),
        filters |-> parsed, branch |-> "title", list |-> list]
  ELSE IF IsSet(parsed, "actors")
  THEN [result |-> ActorSearch(list, DeleteField(parsed, "actors"), parsed.actors),
        filters |-> DeleteField(parsed, "actors"), branch |-> "actor", list |-> list]
  ELSE [result |-> filterMovies(list, parsed), filters |-> parsed, branch |-> "general",
        list |-> list]

\* The call searchMovies(list, query), with parsed the value of
\* parseUserQuery(query) at "const filters = parseUserQuery(query)".  It yields
\* the returned list together with the FilterSet as the call leaves it
\* (filters), the return statement taken (branch) and the caller's list as
\* the call leaves it (list).
SearchBranches(list, exactMatch, parsed) ==
  IF exactMatch # <<>>
  THEN [result |-> exactMatch, filters |-> NoFilters, branch |-> "exact", list |-> list]
  ELSE IF IsSet(parsed, "actors")
  THEN [result |-> ActorSearch(list, DeleteField(parsed, "actors"), parsed.actors),
        filters |-> DeleteField(parsed, "actors"), branch |-> "actor", list |-> list]
  ELSE IF IsSet(parsed, "movie_name") /\ Cardinality(DOMAIN parsed) = 1
  THEN [result |-> TitleSearch(list, parsed.movie_name),
        filters |-> parsed, branch |-> "title",
        list |-> TitleSearchLeaves(list, parsed.movie_name)]
  ELSE [result |-> filterMovies(list, parsed), filters |-> parsed, branch |-> "general",
        list |-> list]

searchMovies(list, query, parsed) ==
  SearchBranches(list, FindExactMatch(list, query), parsed)

\* A variant of filterMovies that deletes each entry of the caller's FilterSet
\* once it has applied it.
filterMoviesLeaves_Consumed(list, filters) == [movies |-> list, filters |-> NoFilters]

\* The caller's list and FilterSet after filterMovies(list, filters):
\* movies.filter() returns a new array, Object.entries() a new list of pairs,
\* and nothing is assigned to either argument.
filterMoviesLeaves(list, filters) == [movies |-> list, filters |-> filters]

(***************************************************************************)
(* fetchMovieData and searchMoviesAction                                   *)
(***************************************************************************)
\* What dbClient.executeQuery("SELECT * FROM movies") does: it resolves to
\* the rows of the store, or rejects (getDB or the read fails).
StoreFails == [ok |-> FALSE, rows |-> <<>>]
StoreReturns(rows) == [ok |-> TRUE, rows |-> rows]

\* How an async function ends: it resolves to a value, or it rejects.
Resolves(value) == [raised |-> FALSE, value |-> value]
Rejects == [raised |-> TRUE, value |-> <<>>]

\* A variant of fetchMovieData without the try/catch.
fetchMovieData_NoCatch(outcome) == IF outcome.ok THEN Resolves(outcome.rows) ELSE Rejects

\* try { return await executeQuery(...) } catch { return [] }
fetchMovieData(outcome) == IF outcome.ok THEN Resolves(outcome.rows) ELSE Resolves(<<>>)

\* results.slice(0, n)
Slice(list, n) == SubSeq(list, 1, IF Len(list) < n THEN Len(list) ELSE n)

ResultLimit == 30

\* filterTerms: one entry per family of trigger words found in the query.
Extracted == <<"E", "x", "t", "r", "a", "c", "t", "e", "d", " ", "f", "r", "o", "m", " ", "y", "o", "u", "r", " ", "q", "u", "e", "r", "y">>

TermWords ==
  [genre |-> {<<"g", "e", "n", "r", "e">>}, director |-> {<<"d", "i", "r", "e", "c", "t", "o", "r">>},
   actor |-> {<<"a", "c", "t", "o", "r">>, <<"s", "t", "a", "r">>, <<"c", "a", "s", "t">>}, year |-> {<<"y", "e", "a", "r">>, <<"r", "e", "l", "e", "a", "s", "e", "d">>},
   country |-> {<<"c", "o", "u", "n", "t", "r", "y">>}, language |-> {<<"l", "a", "n", "g", "u", "a", "g", "e">>},
   keywords |-> {<<"k", "e", "y", "w", "o", "r", "d">>, <<"a", "b", "o", "u", "t">>, <<"p", "l", "o", "t">>, <<"t", "h", "e", "m", "e">>}]

filterTerms(query) ==
  [key \in {k \in DOMAIN TermWords :
              \E w \in TermWords[k] : Includes(ToLowerCase(query), w)} |-> Extracted]

\* What searchMoviesAction returns from its try block, given the list
\* searchMovies returned and the filterTerms of the query, and what it returns
\* from its catch block.
searchMoviesAction(results, terms) ==
  [results |-> Slice(results, ResultLimit), filters |-> terms]

searchMoviesActionCaught == [results |-> <<>>, filters |-> NoFilters]

(***************************************************************************)
(* State: the last call, with its arguments, what it computed on the way   *)
(* and the list it returned.                                               *)
(*   movies   the list passed to the call                                  *)
(*   query    the query passed to searchMovies or parseUserQuery           *)
(*   parsed   parseUserQuery(query), which searchMovies obtains when no    *)
(*            title equals the query                                       *)
(*   filters  the FilterSet passed to filterMovies, or the one searchMovies*)
(*            is left with                                                 *)
(*   chained  for a filterMovies call on the result of an earlier          *)
(*            filterMovies call: that call's list and FilterSet            *)
(*   after    the caller's list and FilterSet objects as the call left     *)
(*            them                                                         *)
(*   store    how the store read of fetchMovieData ended                   *)
(*   response what searchMoviesAction returned                             *)
(*   ran      the extractors run so far, when they are run one by one      *)
(*   log      the calls made on one list during a session, in order, each  *)
(*            with what it returned                                        *)
(***************************************************************************)
VARIABLES op, movies, query, parsed, filters, branch, result, chained,
          after, store, response, ran, log,
          client, favorites, calls,
          db, stored, getters,
          users, user, session, isLoading, signin, now

searchVars == <<op, movies, query, parsed, filters, branch, result, chained,
                after, store, response, ran, log>>

\* The state of the favorites store and of the calls made on it, of the
\* database singleton and its movies store, and of the accounts and the
\* signed-in session.
favVars == <<client, favorites, calls>>
dbVars == <<db, stored, getters>>
authVars == <<users, user, session, isLoading, signin, now>>
appVars == <<favVars, dbVars, authVars>>

vars == <<searchVars, appVars>>

\* No call on the favorites store was made yet.
FavoritesIdle ==
  /\ client = "indexedDB"
  /\ favorites = {}
  /\ calls = <<>>

\* getDB was not called yet: the singleton is null, the movies store empty.
DatabaseIdle ==
  /\ db = 0
  /\ stored = 0
  /\ getters = <<>>

\* No account, nobody signed in, no signIn under way.
NoUser == [id |-> "null"]
NoSignIn == [pc |-> "idle"]

AuthIdle ==
  /\ users = <<>>
  /\ user = NoUser
  /\ session = NoUser
  /\ isLoading = FALSE
  /\ signin = NoSignIn
  /\ now = 0

AppIdle == FavoritesIdle /\ DatabaseIdle /\ AuthIdle

NotChained == [list |-> <<>>, filters |-> NoFilters]
NoResponse == [results |-> <<>>, filters |-> NoFilters]

\* Nothing has been called yet; the caller holds the list held and the query q.
SearchIdle(held, q) ==
  /\ op = "none"
  /\ movies = <<>>
  /\ query = q
  /\ parsed = NoFilters
  /\ filters = NoFilters
  /\ branch = "none"
  /\ result = <<>>
  /\ chained = NotChained
  /\ after = [movies |-> held, filters |-> NoFilters]
  /\ store = "none"
  /\ response = NoResponse
  /\ ran = {}
  /\ log = <<>>

Start(held, q) == SearchIdle(held, q) /\ AppIdle

Init == Start(<<>>, <<>>)

\* searchMoviesAction(q): the catalog is fetched from the store, or the read
\* fails; searchMovies runs on what fetchMovieData resolved to; an exception
\* on the way ends in the catch block.
SearchMovies ==
  /\ op = "none"
  /\ \E q \in Queries :
       \E p \in {parseUserQuery(q)} :
         \E terms \in {filterTerms(q)} :
           \E outcome \in {StoreReturns(c) : c \in Catalogs} \cup {StoreFails} :
             \E fetched \in {fetchMovieData(outcome)} :
               \E r \in {searchMovies(fetched.value, q, p)} :
                 /\ store' = IF outcome.ok THEN "ok" ELSE "failed"
                 /\ query' = q
                 /\ IF fetched.raised
                    THEN /\ op' = "caught"
                         /\ response' = searchMoviesActionCaught
                         /\ UNCHANGED <<movies, parsed, filters, branch, result, after>>
                    ELSE /\ op' = "searchMovies"
                         /\ movies' = fetched.value
                         /\ parsed' = p
                         /\ filters' = r.filters
                         /\ branch' = r.branch
                         /\ result' = r.result
                         /\ after' = [movies |-> r.list, filters |-> NoFilters]
                         /\ response' = searchMoviesAction(r.result, terms)
                 /\ UNCHANGED <<chained, ran, log, appVars>>

\* filterMovies(list, F) for a caller's FilterSet F
FilterMovies ==
  /\ op = "none"
  /\ \E F \in FilterSets(MaxFilters), list \in Catalogs :
       /\ op' = "filterMovies"
       /\ movies' = list
       /\ filters' = F
       /\ result' = filterMovies(list, F)
       /\ after' = filterMoviesLeaves(list, F)
       /\ UNCHANGED <<query, parsed, branch, chained, store, response, ran, log, appVars>>

\* filterMovies(previous result, F2), F2 over fields the previous call did not name
FilterResult ==
  /\ op = "filterMovies"
  /\ \E F \in FilterSets(MaxFilters) :
       /\ DOMAIN F \cap DOMAIN filters = {}
       /\ Cardinality(DOMAIN F) + Cardinality(DOMAIN filters) <= MaxFilters
       /\ op' = "filterResult"
       /\ movies' = result
       /\ filters' = F
       /\ chained' = [list |-> movies, filters |-> filters]
       /\ result' = filterMovies(result, F)
       /\ after' = filterMoviesLeaves(result, F)
       /\ UNCHANGED <<query, parsed, branch, store, response, ran, log, appVars>>

Next == SearchMovies \/ FilterMovies \/ FilterResult

Spec == Init /\ [][Next]_vars

(***************************************************************************)
(* parseUserQuery on its own.  The query is given; either the function is  *)
(* called, or its eight extractors are run one by one in an arbitrary      *)
(* order and the fallback after them.                                      *)
(***************************************************************************)
\* The extractors whose pattern matches somewhere in q.
Firing(q) == {n \in 1..Len(Extractors) : StringMatch(q, Extractors[n].re) # Null}

ParseInit == \E q \in ParseQueries \cup PhraseQueries : Start(<<>>, q)

ParseUserQuery ==
  /\ op = "none"
  /\ op' = "parseUserQuery"
  /\ parsed' = parseUserQuery(query)
  /\ UNCHANGED <<movies, query, filters, branch, result, chained, after, store,
                 response, ran, log, appVars>>

\* The one-by-one run is followed for the queries on which several
\* extractors fire.
StartExtractors ==
  /\ op = "none"
  /\ Cardinality(Firing(query)) >= 2
  /\ op' = "extracting"
  /\ UNCHANGED <<movies, query, parsed, filters, branch, result, chained, after,
                 store, response, ran, log, appVars>>

RunExtractor ==
  /\ op = "extracting"
  /\ \E n \in (1..Len(Extractors)) \ ran :
       /\ ran' = ran \cup {n}
       /\ filters' = StoreGroup(filters, Extractors[n].key,
                                StringMatch(query, Extractors[n].re))
  /\ UNCHANGED <<op, movies, query, parsed, branch, result, chained, after, store,
                 response, log, appVars>>

FinishExtractors ==
  /\ op = "extracting"
  /\ ran = 1..Len(Extractors)
  /\ op' = "extracted"
  /\ filters' = GeneralTerm(filters, query, Trim(query))
  /\ UNCHANGED <<movies, query, parsed, branch, result, chained, after, store,
                 response, ran, log, appVars>>

ParseNext == ParseUserQuery \/ StartExtractors \/ RunExtractor \/ FinishExtractors

ParseSpec == ParseInit /\ [][ParseNext]_vars

(***************************************************************************)
(* A session: a caller holds one list and makes up to MaxCalls calls of    *)
(* parseUserQuery, searchMovies and filterMovies, in any order, passing    *)
(* its list each time.  Each call is logged with what it returned.         *)
(***************************************************************************)
MaxCalls == 3

SessionQueries == {<<"M", "o", "v", "i", "e", " ", "H", "E", "A", "T">>, <<"a", "c", "t", "o", "r", " ", "a", "l">>}

\* A title that one record has and others contain; an actor value that runs
\* across the pipe between two names.
SessionFilters == {"movie_name" :> <<"H", "E", "A", "T">>, "actors" :> <<"o", "|", "V">>}

Entry(call, q, F, p, ret) ==
  [op |-> call, query |-> q, filters |-> F, parsed |-> p, result |-> ret]

SessionInit == \E c \in Catalogs : Start(c, <<>>)

SessionParse ==
  /\ Len(log) < MaxCalls
  /\ \E q \in SessionQueries :
       \E p \in {parseUserQuery(q)} :
         /\ op' = "parseUserQuery"
         /\ query' = q
         /\ parsed' = p
         /\ log' = Append(log, Entry("parseUserQuery", q, NoFilters, p, <<>>))
  /\ UNCHANGED <<movies, filters, branch, result, chained, after, store, response, ran, appVars>>

SessionSearch ==
  /\ Len(log) < MaxCalls
  /\ \E q \in SessionQueries :
       \E p \in {parseUserQuery(q)} :
         \E r \in {searchMovies(after.movies, q, p)} :
           /\ op' = "searchMovies"
           /\ movies' = after.movies
           /\ query' = q
           /\ parsed' = p
           /\ filters' = r.filters
           /\ branch' = r.branch
           /\ result' = r.result
           /\ after' = [movies |-> r.list, filters |-> NoFilters]
           /\ log' = Append(log, Entry("searchMovies", q, NoFilters, p, r.result))
  /\ UNCHANGED <<chained, store, response, ran, appVars>>

SessionFilter ==
  /\ Len(log) < MaxCalls
  /\ \E F \in SessionFilters :
       \E kept \in {filterMovies(after.movies, F)} :
         /\ op' = "filterMovies"
         /\ movies' = after.movies
         /\ filters' = F
         /\ result' = kept
         /\ after' = filterMoviesLeaves(after.movies, F)
         /\ log' = Append(log, Entry("filterMovies", <<>>, F, NoFilters, kept))
  /\ UNCHANGED <<query, parsed, branch, chained, store, response, ran, appVars>>

SessionNext == SessionParse \/ SessionSearch \/ SessionFilter

Session == SessionInit /\ [][SessionNext]_vars

(***************************************************************************)
(* The favorites store and toggleFavoriteAction.  db-service.ts holds two  *)
(* dbClient objects: one over IndexedDB, whose getFavorites returns the    *)
(* movie ids of the user's favorites, and one over localStorage, whose     *)
(* getFavorites returns the user's Favorite records.  The store is the set *)
(* of its rows (user_id, movie_id); added_at, a time stamp, is left out.   *)
(* Storage is taken to be present (window and indexedDB exist).            *)
(*   client     the dbClient in use                                        *)
(*   favorites  the rows of the favorites store                            *)
(*   calls      the toggleFavoriteAction calls made, each with its         *)
(*              arguments, its position, the array it read, the boolean it  *)
(*              returned, and whether the pair was a favorite when the call *)
(*              began (before) and when it returned (after)                 *)
(***************************************************************************)
MaxToggles == 3

Clients == {"indexedDB", "localStorage"}
UserIds == {"u1", "u2"}
MovieIds == {"1", "2"}

\* JavaScript values: a string, and a Favorite object.
StringValue(s) == [string |-> s]
FavoriteRow(userId, movieId) == [user_id |-> userId, movie_id |-> movieId]

\* The array getFavorites(userId) resolves to, as the set of its elements.
getFavorites(impl, rows, userId) ==
  IF impl = "indexedDB"
  THEN {StringValue(fav.movie_id) : fav \in {f \in rows : f.user_id = userId}}
  ELSE {fav \in rows : fav.user_id = userId}

\* array.includes(x): some element is strictly equal to x.  An object is
\* never strictly equal to a string.
ArrayIncludes(array, x) == \E e \in array : DOMAIN e = DOMAIN x /\ e = x

\* db.put under the key [user_id, movie_id]; push unless the row exists.
addFavorite(impl, rows, userId, movieId) == rows \cup {FavoriteRow(userId, movieId)}

\* db.delete of the key; filter() of the other rows.
removeFavorite(impl, rows, userId, movieId) == rows \ {FavoriteRow(userId, movieId)}

IsFavorite(rows, userId, movieId) == FavoriteRow(userId, movieId) \in rows

AllDone == \A k \in 1..Len(calls) : calls[k].pc = "done"

FavoritesInit ==
  /\ SearchIdle(<<>>, <<>>)
  /\ client \in Clients
  /\ favorites = {}
  /\ calls = <<>>
  /\ DatabaseIdle
  /\ AuthIdle

\* toggleFavoriteAction(userId, movieId) up to its first await.  The
\* localStorage getFavorites has no await of its own and reads the store
\* during the call; the IndexedDB one awaits getDB() and reads later.
StartToggle ==
  /\ Len(calls) < MaxToggles
  /\ \E userId \in UserIds, movieId \in MovieIds :
       calls' = Append(calls,
         [userId |-> userId, movieId |-> movieId,
          pc |-> IF client = "localStorage" THEN "read" ELSE "reading",
          favoriteIds |-> IF client = "localStorage"
                          THEN getFavorites(client, favorites, userId) ELSE {},
          returned |-> FALSE,
          before |-> IsFavorite(favorites, userId, movieId),
          after |-> IsFavorite(favorites, userId, movieId)])
  /\ UNCHANGED <<searchVars, client, favorites, dbVars, authVars>>

\* a call made when every earlier call has returned
StartToggleAlone == AllDone /\ StartToggle

\* db.getAllFromIndex("favorites", "by-user", userId) of call k resolves.
ReadFavorites ==
  /\ \E k \in 1..Len(calls) :
       /\ calls[k].pc = "reading"
       /\ calls' = [calls EXCEPT ![k].pc = "read",
                                 ![k].favoriteIds =
                                   getFavorites(client, favorites, calls[k].userId)]
  /\ UNCHANGED <<searchVars, client, favorites, dbVars, authVars>>

\* Call k goes on after "await dbClient.getFavorites(userId)": it tests
\* includes(movieId), removes or adds the row, and returns.
ResumeToggle ==
  /\ \E k \in 1..Len(calls) :
       /\ calls[k].pc = "read"
       /\ LET isFavorite == ArrayIncludes(calls[k].favoriteIds, StringValue(calls[k].movieId))
              rows == IF isFavorite
                      THEN removeFavorite(client, favorites, calls[k].userId, calls[k].movieId)
                      ELSE addFavorite(client, favorites, calls[k].userId, calls[k].movieId)
          IN  /\ favorites' = rows
              /\ calls' = [calls EXCEPT ![k].pc = "done",
                                        ![k].returned = ~isFavorite,
                                        ![k].after =
                                          IsFavorite(rows, calls[k].userId, calls[k].movieId)]
  /\ UNCHANGED <<searchVars, client, dbVars, authVars>>

\* Calls made one after the other.
FavoritesNext == StartToggleAlone \/ ReadFavorites \/ ResumeToggle

Favorites == FavoritesInit /\ [][FavoritesNext]_vars

\* Calls that may overlap: a call may start while others wait at an await.
RaceNext == StartToggle \/ ReadFavorites \/ ResumeToggle

FavoritesRace == FavoritesInit /\ [][RaceNext]_vars

(***************************************************************************)
(* getDB: the module keeps one database handle, db, null until the first   *)
(* openDB has resolved.  A call that finds db set returns it at once; one  *)
(* that finds it null opens the database, assigns db, counts the movies    *)
(* store and, finding it empty, adds the seed records one by one.          *)
(*   db       0 for null, or the number of the call whose openDB set it    *)
(*   stored   the number of seed records in the movies store; records are  *)
(*            added in the order of the seed array, so the store holds the *)
(*            first stored ones                                            *)
(*   getters  the getDB calls made, each with its position, the index of   *)
(*            the next seed record it will add, and the number of records  *)
(*            the store held when the call resolved (seen)                 *)
(***************************************************************************)
MaxGetters == 3
SeedCount == 30

DatabaseInit ==
  /\ SearchIdle(<<>>, <<>>)
  /\ FavoritesIdle
  /\ AuthIdle
  /\ db = 0
  /\ stored \in {0, SeedCount}
  /\ getters = <<>>

Getter(pc, next, seen) == [pc |-> pc, next |-> next, seen |-> seen]

\* getDB(): "if (db) return db", else the call waits for openDB.
CallGetDB ==
  /\ Len(getters) < MaxGetters
  /\ getters' = Append(getters,
       IF db # 0 THEN Getter("resolved", 0, stored) ELSE Getter("opening", 0, 0))
  /\ UNCHANGED <<searchVars, favVars, authVars, db, stored>>

\* openDB of call k resolves: "db = await openDB(...)"; the call then waits
\* for db.count("movies").
OpenResolves ==
  /\ \E k \in 1..Len(getters) :
       /\ getters[k].pc = "opening"
       /\ db' = k
       /\ getters' = [getters EXCEPT ![k].pc = "counting"]
  /\ UNCHANGED <<searchVars, favVars, authVars, stored>>

\* db.count("movies") of call k resolves: with count 0 the call starts
\* initializeMovieData, else it returns db.
CountResolves ==
  /\ \E k \in 1..Len(getters) :
       /\ getters[k].pc = "counting"
       /\ getters' = [getters EXCEPT
            ![k] = IF stored = 0 THEN Getter("seeding", 1, 0)
                   ELSE Getter("resolved", 0, stored)]
  /\ UNCHANGED <<searchVars, favVars, authVars, db, stored>>

\* One "await db.add("movies", movie)" of call k: add() of a key the store
\* holds rejects with a ConstraintError, which getDB does not catch; after
\* the last record the call returns db.
AddMovie ==
  /\ \E k \in 1..Len(getters) :
       /\ getters[k].pc = "seeding"
       /\ IF getters[k].next <= stored
          THEN /\ getters' = [getters EXCEPT ![k].pc = "rejected"]
               /\ UNCHANGED stored
          ELSE /\ stored' = stored + 1
               /\ getters' = [getters EXCEPT
                    ![k] = IF getters[k].next = SeedCount
                           THEN Getter("resolved", 0, stored + 1)
                           ELSE Getter("seeding", getters[k].next + 1, 0)]
  /\ UNCHANGED <<searchVars, favVars, authVars, db>>

DatabaseNext == CallGetDB \/ OpenResolves \/ CountResolves \/ AddMovie

Database == DatabaseInit /\ [][DatabaseNext]_vars

(***************************************************************************)
(* AuthProvider: signUp, signIn and signOut.                               *)
(*   users      the accounts of the store, by email, each with its id, its *)
(*              hashed password and last_login                             *)
(*   user       the React state user: NoUser for null, else a profile      *)
(*   session    the localStorage entry movieInsightsUser: NoUser when      *)
(*              absent, else the profile stored                            *)
(*   isLoading  the React state isLoading, after the mount effect          *)
(*   signin     the signIn call under way or the one that returned last,   *)
(*              NoSignIn once signUp or signOut has run after it: its      *)
(*              position, arguments, the account it fetched, the error it  *)
(*              returned, and users, user and session as they were when it *)
(*              began                                                      *)
(*   now        the clock, read by updateLastLogin                         *)
(* created_at and username are left out.  Calls do not overlap.            *)
(***************************************************************************)
MaxClock == 2

Emails == {"a@x", "b@x"}
Passwords == {"p", "q"}

\* btoa(password + "salt"): base64 is one-to-one, written as a tagged value.
hashPassword(password) == [btoa |-> <<password, "salt">>]

\* A variant of the destructuring that keeps every field.
WithoutPassword_Kept(account) == account

\* const { password: _, ...userWithoutPassword } = user
WithoutPassword(account) ==
  [k \in DOMAIN account \ {"password"} |-> account[k]]

\* dbClient.getUserByEmail(email): the account, or undefined / null.
getUserByEmail(accounts, email) ==
  IF email \in DOMAIN accounts THEN accounts[email] ELSE NoUser

\* dbClient.updateLastLogin(userId)
updateLastLogin(accounts, userId, time) ==
  [e \in DOMAIN accounts |->
     IF accounts[e].id = userId THEN [accounts[e] EXCEPT !.last_login = time]
     ELSE accounts[e]]

Returned(call, error) == [call EXCEPT !.pc = "returned", !.error = error]

AuthInit ==
  /\ SearchIdle(<<>>, <<>>)
  /\ FavoritesIdle
  /\ DatabaseIdle
  /\ AuthIdle

NoCallUnderWay == signin.pc \in {"idle", "returned"}

\* signUp(email, password, username)
SignUp ==
  /\ NoCallUnderWay
  /\ \E email \in Emails, password \in Passwords :
       IF getUserByEmail(users, email) # NoUser
       THEN UNCHANGED <<users, user, session>>
       ELSE LET newUser == [id |-> email, email |-> email,
                            password |-> hashPassword(password), last_login |-> now]
            IN  /\ users' = (email :> newUser) @@ users
                /\ user' = WithoutPassword(newUser)
                /\ session' = WithoutPassword(newUser)
  /\ isLoading' = FALSE
  /\ signin' = NoSignIn
  /\ UNCHANGED <<searchVars, favVars, dbVars, now>>

\* signOut()
SignOut ==
  /\ NoCallUnderWay
  /\ user # NoUser
  /\ user' = NoUser
  /\ session' = NoUser
  /\ signin' = NoSignIn
  /\ UNCHANGED <<searchVars, favVars, dbVars, users, isLoading, now>>

\* signIn(email, password) up to "await dbClient.getUserByEmail(email)"
StartSignIn ==
  /\ NoCallUnderWay
  /\ now < MaxClock
  /\ \E email \in Emails, password \in Passwords :
       signin' = [pc |-> "getUserByEmail", email |-> email, password |-> password,
                  found |-> NoUser, error |-> "pending",
                  held |-> [users |-> users, user |-> user, session |-> session]]
  /\ isLoading' = TRUE
  /\ UNCHANGED <<searchVars, favVars, dbVars, users, user, session, now>>

\* getUserByEmail resolves or rejects; signIn tests the account and the
\* password and either returns an error (the finally block clears isLoading)
\* or goes on to "await dbClient.updateLastLogin(user.id)".
LookupResolves ==
  /\ signin.pc = "getUserByEmail"
  /\ \E rejects \in BOOLEAN :
       LET found == getUserByEmail(users, signin.email)
       IN  IF rejects
           THEN signin' = Returned(signin, "thrown") /\ isLoading' = FALSE
           ELSE IF found = NoUser
           THEN signin' = Returned(signin, "No account found with this email. Please register.")
                /\ isLoading' = FALSE
           ELSE IF found.password # hashPassword(signin.password)
           THEN signin' = Returned(signin, "Invalid password") /\ isLoading' = FALSE
           ELSE signin' = [signin EXCEPT !.pc = "updateLastLogin", !.found = found]
                /\ UNCHANGED isLoading
  /\ UNCHANGED <<searchVars, favVars, dbVars, users, user, session, now>>

\* updateLastLogin resolves or rejects; on success signIn stores the account
\* it fetched, without its password, as user and as movieInsightsUser.
UpdateResolves ==
  /\ signin.pc = "updateLastLogin"
  /\ \E rejects \in BOOLEAN :
       IF rejects
       THEN /\ signin' = Returned(signin, "thrown")
            /\ UNCHANGED <<users, user, session, now>>
       ELSE /\ now' = now + 1
            /\ users' = updateLastLogin(users, signin.found.id, now + 1)
            /\ user' = WithoutPassword(signin.found)
            /\ session' = WithoutPassword(signin.found)
            /\ signin' = Returned(signin, "null")
  /\ isLoading' = FALSE
  /\ UNCHANGED <<searchVars, favVars, dbVars>>

AuthNext == SignUp \/ SignOut \/ StartSignIn \/ LookupResolves \/ UpdateResolves

Auth == AuthInit /\ [][AuthNext]_vars

(***************************************************************************)
(* Vocabulary of the properties, stated without the code's own helpers.    *)
(***************************************************************************)
Title(m) == Heap[m].movie_name

\* a and b are the same string up to the case of their letters
EqualsIgnoreCase(a, b) ==
  /\ Len(a) = Len(b)
  /\ \A i \in 1..Len(a) : ToLowerChar(a[i]) = ToLowerChar(b[i])

\* sub occurs in s, up to the case of letters
ContainsIgnoreCase(s, sub) ==
  \E k \in 0..(Len(s) - Len(sub)) :
    \A j \in 1..Len(sub) : ToLowerChar(s[k + j]) = ToLowerChar(sub[j])

\* The records of list at the positions of keep, in the order of list.
KeptInOrder(list, keep) ==
  [n \in 1..Cardinality(keep) |->
     list[CHOOSE i \in keep : Cardinality({j \in keep : j < i}) = n - 1]]

Positions(list) == 1..Len(list)

\* The positions of the records whose title is the whole query.
TitleHits == {i \in Positions(movies) : EqualsIgnoreCase(Title(movies[i]), query)}

\* The positions of the records whose title contains t, and among them of those
\* whose title is t.
TitleContains(t) == {i \in Positions(movies) : ContainsIgnoreCase(Title(movies[i]), t)}
TitleIs(t) == {i \in Positions(movies) : EqualsIgnoreCase(Title(movies[i]), t)}

\* parseUserQuery gave the single entry movie_name, not empty.
TitleOnly == DOMAIN parsed = {"movie_name"} /\ parsed["movie_name"] # <<>>

\* result lists x before y
ListedBefore(x, y) ==
  \E k, l \in Positions(result) : k < l /\ result[k] = x /\ result[l] = y

(***************************************************************************)
(* C1: whenever some record's title equals the whole query up to case,     *)
(* searchMovies returns exactly one record, the first such record of the   *)
(* catalog, whatever the query parses to and whatever other records        *)
(* contain.                                                                *)
(***************************************************************************)
C1_ExactTitleReturnsFirstMatch ==
  (op = "searchMovies" /\ TitleHits # {}) =>
    result = <<movies[CHOOSE i \in TitleHits : \A j \in TitleHits : i <= j]>>

\* Two records carry the title, the second of the catalog being the first of
\* them, a third record contains the title, and the query parses to a title
\* filter that all three would pass.
C1_Witness ==
  /\ op = "searchMovies"
  /\ Len(movies) = 3
  /\ TitleHits = {2, 3}
  /\ TitleContains(query) = {1, 2, 3}
  /\ TitleOnly
  /\ result = <<movies[2]>>

(***************************************************************************)
(* C2, as claimed: when the catalog holds a record whose title equals the  *)
(* query and another whose title merely contains it, searchMovies returns  *)
(* both, the exact-title record first and the partial matches after it,    *)
(* shorter titles first.                                                   *)
(***************************************************************************)
C2_TitleQueryReturnsPartialMatches ==
  (/\ op = "searchMovies"
   /\ TitleHits # {}
   /\ TitleContains(query) \ TitleHits # {}) =>
    /\ \A i \in TitleContains(query) : \E k \in Positions(result) : result[k] = movies[i]
    /\ \A i \in TitleHits, j \in TitleContains(query) \ TitleHits :
         ListedBefore(movies[i], movies[j])
    /\ \A i, j \in TitleContains(query) \ TitleHits :
         ListedBefore(movies[i], movies[j]) => Len(Title(movies[i])) <= Len(Title(movies[j]))

(***************************************************************************)
(* C2, amended: with a title as the whole query the exact-title shortcut   *)
(* returns the first exact-title record alone.  The ranking is what a      *)
(* query returns that equals no title and parses to the title filter t     *)
(* alone (such as "Movie HEAT" for t = "HEAT"): every record whose title   *)
(* is t or contains t, the exact-title records first, then the partial     *)
(* matches with shorter titles before longer ones.                         *)
(***************************************************************************)
C2_RankingNeedsTitleFilter ==
  /\ (/\ op = "searchMovies"
      /\ TitleHits # {}
      /\ TitleContains(query) \ TitleHits # {}) =>
       /\ Len(result) = 1
       /\ \E i \in TitleHits : result[1] = movies[i]
  /\ (/\ op = "searchMovies"
      /\ TitleHits = {}
      /\ TitleOnly
      /\ TitleIs(parsed["movie_name"]) # {}
      /\ TitleContains(parsed["movie_name"]) \ TitleIs(parsed["movie_name"]) # {}) =>
       LET t == parsed["movie_name"]
       IN  /\ \A i \in TitleContains(t) : \E k \in Positions(result) : result[k] = movies[i]
           /\ \A i \in TitleIs(t), j \in TitleContains(t) \ TitleIs(t) :
                ListedBefore(movies[i], movies[j]) /\ ~ListedBefore(movies[j], movies[i])
           /\ \A i, j \in TitleContains(t) \ TitleIs(t) :
                ListedBefore(movies[i], movies[j]) =>
                  Len(Title(movies[i])) <= Len(Title(movies[j]))

\* The title filter comes from a longer query; the catalog lists a long partial
\* match, then a short one, then the exact-title record, and the result lists
\* them in the opposite order.
C2_Witness ==
  /\ op = "searchMovies"
  /\ TitleHits = {}
  /\ TitleOnly
  /\ Len(movies) = 3
  /\ TitleIs(parsed["movie_name"]) = {3}
  /\ TitleContains(parsed["movie_name"]) = {1, 2, 3}
  /\ Len(Title(movies[1])) > Len(Title(movies[2]))
  /\ result = <<movies[3], movies[2], movies[1]>>

(***************************************************************************)
(* C3: title-only path.  When no title equals the query and the query      *)
(* parses to the single entry movie_name = t, t not empty, the result      *)
(* holds exactly the records whose title contains t, and for a listed      *)
(* before b: b is an exact match of t only if a is, and within the same    *)
(* class a's title is not longer than b's.                                 *)
(***************************************************************************)
C3_TitleOnlyPathRanks ==
  (op = "searchMovies" /\ TitleHits = {} /\ TitleOnly) =>
    LET t == parsed["movie_name"]
        exact(m) == EqualsIgnoreCase(Title(m), t)
    IN  /\ Len(result) = Cardinality(TitleContains(t))
        /\ {result[k] : k \in Positions(result)} = {movies[i] : i \in TitleContains(t)}
        /\ \A k, l \in Positions(result) :
             k < l =>
               /\ exact(result[l]) => exact(result[k])
               /\ (exact(result[k]) <=> exact(result[l])) =>
                    Len(Title(result[k])) <= Len(Title(result[l]))

\* A record is left out, and the two partial matches come back in the order
\* of their lengths, not of the catalog.
C3_Witness ==
  /\ op = "searchMovies"
  /\ TitleHits = {}
  /\ TitleOnly
  /\ Len(movies) = 3
  /\ TitleContains(parsed["movie_name"]) = {1, 3}
  /\ TitleIs(parsed["movie_name"]) = {}
  /\ Len(Title(movies[1])) > Len(Title(movies[3]))
  /\ result = <<movies[3], movies[1]>>

(***************************************************************************)
(* Vocabulary of the filter properties.                                    *)
(***************************************************************************)
\* F without the entry of field f
Without(F, f) == [k \in DOMAIN F \ {f} |-> F[k]]

\* The record has no field f: a name outside the record definition, or an
\* optional field left unset.
Lacks(m, f) == f \notin DOMAIN Heap[m]

\* The pipe-separated elements of s: its maximal stretches without a pipe.
Elements(s) ==
  {SubSeq(s, a, b) : <<a, b>> \in
     {p \in (1..(Len(s) + 1)) \X (0..Len(s)) :
        /\ p[1] <= p[2] + 1
        /\ \A j \in p[1]..p[2] : s[j] # "|"
        /\ (p[1] = 1 \/ s[p[1] - 1] = "|")
        /\ (p[2] = Len(s) \/ s[p[2] + 1] = "|")}}

\* filterMovies has run, directly or on the result of an earlier run
Filtered == op \in {"filterMovies", "filterResult"}

\* The records of the catalog that pass every entry of F.
PassAll(F) ==
  {i \in Positions(movies) :
     \A key \in DOMAIN F : MatchesEntry(movies[i], key, F[key])}

\* The query is the title of no record and parses to an actor name.
ActorPath == TitleHits = {} /\ IsSet(parsed, "actors")

\* None of the exact-title, actor and title-only branches applies.
GeneralPath ==
  /\ TitleHits = {}
  /\ ~IsSet(parsed, "actors")
  /\ ~(IsSet(parsed, "movie_name") /\ Cardinality(DOMAIN parsed) = 1)

(***************************************************************************)
(* C4: actor-aware path.  When no title equals the query and the query     *)
(* parses to a FilterSet with a non-empty actors value a, the result is,   *)
(* in catalog order, exactly the records that filterMovies keeps under the *)
(* parsed FilterSet without actors and whose actors field contains a, up   *)
(* to case.                                                                *)
(***************************************************************************)
C4_ActorPathIsFilterPlusActor ==
  (op = "searchMovies" /\ ActorPath) =>
    LET F == Without(parsed, "actors")
        kept == filterMovies(movies, F)
    IN  result = KeptInOrder(movies,
          {i \in Positions(movies) :
             /\ \E k \in 1..Len(kept) : kept[k] = movies[i]
             /\ ContainsIgnoreCase(Heap[movies[i]].actors, parsed["actors"])})

\* The query names a year and an actor; of three records one passes both, one
\* passes the year and lacks the actor, one has the actor and another year.
C4_Witness ==
  /\ op = "searchMovies"
  /\ ActorPath
  /\ DOMAIN parsed = {"actors", "release_year"}
  /\ Len(movies) = 3
  /\ Len(result) = 1
  /\ \E i \in Positions(movies) :
       /\ movies[i] # result[1]
       /\ filterMovies(<<movies[i]>>, Without(parsed, "actors")) # <<>>
       /\ ~ContainsIgnoreCase(Heap[movies[i]].actors, parsed["actors"])
  /\ \E i \in Positions(movies) :
       /\ ContainsIgnoreCase(Heap[movies[i]].actors, parsed["actors"])
       /\ filterMovies(<<movies[i]>>, Without(parsed, "actors")) = <<>>

(***************************************************************************)
(* C5: general path.  filterMovies, and searchMovies when none of the      *)
(* exact-title, actor and title-only branches applies, returns exactly the *)
(* records that pass every filter entry, in the order of the input list.   *)
(***************************************************************************)
C5_GeneralPathIsOrderedConjunction ==
  /\ Filtered => result = KeptInOrder(movies, PassAll(filters))
  /\ (op = "searchMovies" /\ GeneralPath) => result = KeptInOrder(movies, PassAll(parsed))

\* Two entries, a record that passes one of them and not the other, and two
\* records kept out of three, in the order of the list, which is not the order
\* of their ids.
C5_Witness ==
  /\ op = "filterMovies"
  /\ Cardinality(DOMAIN filters) = 2
  /\ Len(movies) = 3
  /\ Len(result) = 2
  /\ result[1] > result[2]
  /\ \E i \in Positions(movies), f, g \in DOMAIN filters :
       /\ MatchesEntry(movies[i], f, filters[f])
       /\ ~MatchesEntry(movies[i], g, filters[g])

\* The general branch of searchMovies, with two parsed entries and a record
\* left out.
C5_SearchWitness ==
  /\ op = "searchMovies"
  /\ GeneralPath
  /\ Cardinality(DOMAIN parsed) = 2
  /\ Len(movies) = 3
  /\ Len(result) = 2

(***************************************************************************)
(* C6: multi-value containment.  Under a single filter entry f = v, v not  *)
(* empty, a record that has the field f is kept if and only if: for f      *)
(* genre or plot_keyword, some pipe-separated element of the field         *)
(* contains v up to case; for any other f, the field written as a string   *)
(* contains v up to case.                                                  *)
(***************************************************************************)
C6_MultiValueContainment ==
  (op = "filterMovies" /\ Cardinality(DOMAIN filters) = 1) =>
    \A f \in DOMAIN filters :
      filters[f] # <<>> =>
        \A i \in Positions(movies) :
          ~Lacks(movies[i], f) =>
            ((\E k \in Positions(result) : result[k] = movies[i])
              <=> IF f \in {"genre", "plot_keyword"}
                  THEN \E e \in Elements(Heap[movies[i]][f]) : ContainsIgnoreCase(e, filters[f])
                  ELSE ContainsIgnoreCase(StringOf(movies[i], f), filters[f]))

\* A genre filter whose value occurs in the genre string of every record of
\* the catalog, and in no element of it: nothing is kept.
C6_Witness ==
  /\ op = "filterMovies"
  /\ DOMAIN filters = {"genre"}
  /\ filters["genre"] # <<>>
  /\ Len(movies) = 3
  /\ \A i \in Positions(movies) : ContainsIgnoreCase(Heap[movies[i]].genre, filters["genre"])
  /\ result = <<>>

(***************************************************************************)
(* C7: no-op filter.  An entry whose value is the empty string excludes no *)
(* record: the result under F is the result under F without that entry,    *)
(* whether or not the records have the field, and a FilterSet of such      *)
(* entries alone returns the list unchanged.                               *)
(***************************************************************************)
C7_EmptyValueIsNoOp ==
  Filtered =>
    /\ \A f \in DOMAIN filters :
         filters[f] = <<>> => result = filterMovies(movies, Without(filters, f))
    /\ (\A f \in DOMAIN filters : filters[f] = <<>>) => result = movies

\* An empty value on a field no record has, next to an entry that rejects some
\* record and keeps another.
C7_Witness ==
  /\ op = "filterMovies"
  /\ DOMAIN filters = {"tagline", "release_year"}
  /\ filters["tagline"] = <<>>
  /\ filters["release_year"] # <<>>
  /\ Len(movies) = 3
  /\ result # <<>>
  /\ result # movies
  /\ result = filterMovies(movies, Without(filters, "tagline"))

C9_FilterComposition ==
  op = "filterResult" =>
    /\ DOMAIN chained.filters \cap DOMAIN filters = {}
    /\ result = filterMovies(chained.list, chained.filters @@ filters)

\* Each of F1 and F2 rejects a record that the other keeps, and two records
\* survive both.
C9_Witness ==
  /\ op = "filterResult"
  /\ chained.filters # NoFilters
  /\ filters # NoFilters
  /\ Len(chained.list) = 3
  /\ Len(movies) = 2
  /\ Len(result) = 1
  /\ filterMovies(chained.list, filters) # result
  /\ Len(filterMovies(chained.list, filters)) = 2

(***************************************************************************)
(* C10: empty catalog.  searchMovies on the empty list returns the empty   *)
(* list for every query, and a query that no record of the catalog matches *)
(* returns the empty list; whatever is returned is a list of records of    *)
(* the catalog, never an undefined entry.                                  *)
(***************************************************************************)
C10_NoMatchGivesEmptyList ==
  op = "searchMovies" =>
    /\ movies = <<>> => result = <<>>
    /\ (\A i \in Positions(movies) : searchMovies(<<movies[i]>>, query, parsed).result = <<>>)
         => result = <<>>
    /\ \A k \in Positions(result) : \E i \in Positions(movies) : result[k] = movies[i]

\* The empty catalog searched with a query that parses to three entries.
C10_Witness ==
  /\ op = "searchMovies"
  /\ movies = <<>>
  /\ Cardinality(DOMAIN parsed) = 3
  /\ result = <<>>

\* A catalog of three records none of which the query matches.
C10_UnmatchedWitness ==
  /\ op = "searchMovies"
  /\ Len(movies) = 3
  /\ query # <<>>
  /\ \A i \in Positions(movies) : searchMovies(<<movies[i]>>, query, parsed).result = <<>>
  /\ result = <<>>

(***************************************************************************)
(* Vocabulary of the parser properties.                                    *)
(***************************************************************************)
\* parseUserQuery has run on query, alone or inside searchMovies
Parsed == op \in {"parseUserQuery", "searchMovies"}

\* Extractor n fires on q: its pattern matches somewhere in q.
Fires(n, q) == StringMatch(q, Extractors[n].re) # Null

\* q without its leading and trailing white space
Stripped(q) ==
  LET inner == {i \in 1..Len(q) : q[i] \notin WhiteSpace}
  IN  IF inner = {} THEN <<>>
      ELSE SubSeq(q, CHOOSE i \in inner : \A j \in inner : i <= j,
                     CHOOSE i \in inner : \A j \in inner : i >= j)

\* The genre vocabulary of the fallback.
GenreVocabulary ==
  {<<"a", "c", "t", "i", "o", "n">>, <<"c", "o", "m", "e", "d", "y">>, <<"d", "r", "a", "m", "a">>, <<"h", "o", "r", "r", "o", "r">>, <<"s", "c", "i", "-", "f", "i">>, <<"t", "h", "r", "i", "l", "l", "e", "r">>,
   <<"r", "o", "m", "a", "n", "c", "e">>, <<"a", "d", "v", "e", "n", "t", "u", "r", "e">>, <<"f", "a", "n", "t", "a", "s", "y">>}

(***************************************************************************)
(* C11: fallback classification.  When no extractor fires on the query and *)
(* the query is not blank, parseUserQuery returns exactly one entry, whose *)
(* value is the trimmed query and whose key is genre if the query contains *)
(* a word of the genre vocabulary, up to case, and movie_name otherwise;   *)
(* and parseUserQuery returns the empty FilterSet only for a blank query.  *)
(***************************************************************************)
C11_FallbackClassification ==
  Parsed =>
    /\ \/ parsed = (IF \E g \in GenreVocabulary : ContainsIgnoreCase(query, g)
                    THEN "genre" ELSE "movie_name") :> Stripped(query)
       \/ Stripped(query) = <<>>
       \/ \E n \in 1..Len(Extractors) : Fires(n, query)
    /\ parsed = NoFilters => Stripped(query) = <<>>

\* A genre word with white space on both sides, parsed on its own.
C11_Witness ==
  /\ op = "parseUserQuery"
  /\ query # <<>>
  /\ Head(query) \in WhiteSpace
  /\ query[Len(query)] \in WhiteSpace
  /\ \E g \in GenreVocabulary : Stripped(query) = g
  /\ parsed = "genre" :> Stripped(query)

\* A word outside the vocabulary becomes a title filter.
C11_TitleWitness ==
  /\ op = "parseUserQuery"
  /\ query # <<>>
  /\ \A n \in 1..Len(Extractors) : ~Fires(n, query)
  /\ parsed = "movie_name" :> Stripped(query)

\* A query of white space alone gives the empty FilterSet.
C11_BlankWitness ==
  /\ op = "parseUserQuery"
  /\ query # <<>>
  /\ Stripped(query) = <<>>
  /\ parsed = NoFilters


C13_FilterMoviesIsPlain ==
  op = "filterMovies" =>
    /\ (DOMAIN filters = {"movie_name"} /\ filters["movie_name"] # <<>>) =>
         result = KeptInOrder(movies, TitleContains(filters["movie_name"]))
    /\ (DOMAIN filters = {"actors"} /\ filters["actors"] # <<>>) =>
         result = KeptInOrder(movies,
           {i \in Positions(movies) :
              ContainsIgnoreCase(Heap[movies[i]].actors, filters["actors"])})

\* The filter value is the title of the last record of the list; the longer
\* titles before it contain it, and all three records come back as listed.
C13_Witness ==
  /\ op = "filterMovies"
  /\ DOMAIN filters = {"movie_name"}
  /\ Len(movies) = 3
  /\ TitleIs(filters["movie_name"]) = {3}
  /\ Len(Title(movies[1])) > Len(Title(movies[2]))
  /\ result = movies


\* An actors value that runs across the pipe between two names keeps the
\* record, as a scalar comparison does.
C13_ActorWitness ==
  /\ op = "filterMovies"
  /\ DOMAIN filters = {"actors"}
  /\ \E k \in 1..Len(filters["actors"]) : filters["actors"][k] = "|"
  /\ result # <<>>


(***************************************************************************)
(* C14: fail-open on store failure.  When the store read behind            *)
(* fetchMovieData fails, fetchMovieData resolves to the empty list, so     *)
(* that searchMovies runs on the empty list and searchMoviesAction returns *)
(* an empty results list; the failure is not passed on.                    *)
(***************************************************************************)
C14_StoreFailureGivesEmptyResults ==
  store = "failed" =>
    /\ op = "searchMovies"
    /\ movies = <<>>
    /\ result = <<>>
    /\ response.results = <<>>

\* The read fails for a query that names two fields; the search still runs
\* and the response carries the terms found in the query.
C14_Witness ==
  /\ store = "failed"
  /\ op = "searchMovies"
  /\ Cardinality(DOMAIN parsed) = 2
  /\ movies = <<>>
  /\ response.results = <<>>
  /\ DOMAIN response.filters = {"year", "actor"}


C15_FilterWitness ==
  /\ op = "filterMovies"
  /\ Cardinality(DOMAIN filters) = 2
  /\ Len(result) < Len(movies)
  /\ after = [movies |-> movies, filters |-> filters]

\* The actor path: the actors entry is gone from the parsed FilterSet, the
\* other entry is kept.
C15_ActorWitness ==
  /\ op = "searchMovies"
  /\ ActorPath
  /\ Cardinality(DOMAIN parsed) = 2
  /\ filters = Without(parsed, "actors")
  /\ result # <<>>


(***************************************************************************)
(* C16: branch priority.  The exact-title shortcut is taken whenever a     *)
(* title equals the query, whatever the query would parse to; otherwise    *)
(* the actor path is taken whenever the parsed FilterSet has a non-empty   *)
(* actors value, also when it has a movie_name entry, and its result is in *)
(* the order of the list; the title-only ranking is taken only when        *)
(* movie_name is the sole entry.                                           *)
(***************************************************************************)
C16_BranchPriority ==
  op = "searchMovies" =>
    /\ branch = "exact" <=> TitleHits # {}
    /\ branch = "actor" <=> (TitleHits = {} /\ IsSet(parsed, "actors"))
    /\ branch = "title" <=> (TitleHits = {} /\ TitleOnly)
    /\ branch = "title" => ~IsSet(parsed, "actors")
    /\ ActorPath =>
         \E keep \in SUBSET Positions(movies) : result = KeptInOrder(movies, keep)

\* The query names a title and an actor.  Two records pass both, the longer
\* title first in the list, and they come back in that order; the title-only
\* ranking would put the shorter title first.
C16_Witness ==
  /\ op = "searchMovies"
  /\ ActorPath
  /\ IsSet(parsed, "movie_name")
  /\ Len(result) = 2
  /\ result = SubSeq(movies, 1, 2)
  /\ Len(Title(result[1])) > Len(Title(result[2]))
  /\ EqualsIgnoreCase(Title(result[2]), parsed["movie_name"])


(***************************************************************************)
(* C17: extractor order-independence.  Each extractor writes its own field *)
(* only: whatever the order in which the eight extractors are run on a     *)
(* query, the FilterSet holds, for every extractor run so far, exactly     *)
(* what that extractor alone gives, and at the end it is the FilterSet     *)
(* parseUserQuery returns.  In particular the country extractor leaves     *)
(* release_year as the year extractor set it.                              *)
(***************************************************************************)
C17_ExtractorOrderIndependent ==
  /\ op \in {"extracting", "extracted"} =>
       /\ \A n \in ran :
            LET alone == StoreGroup(NoFilters, Extractors[n].key,
                                    StringMatch(query, Extractors[n].re))
            IN  \A k \in DOMAIN alone : k \in DOMAIN filters /\ filters[k] = alone[k]
       /\ op = "extracting" => DOMAIN filters \subseteq {Extractors[n].key : n \in ran}
  /\ op = "extracted" => filters = parseUserQuery(query)

\* "from" followed by four digits: the year and the country extractor have
\* both fired, in some order, and release_year holds the digits.
C17_Witness ==
  /\ op = "extracted"
  /\ ran = 1..Len(Extractors)
  /\ {"release_year", "country"} \subseteq DOMAIN filters
  /\ filters["release_year"] = <<"1", "9", "9", "5">>
  /\ \E i \in 1..(Len(query) - 3) : ToLowerCase(SubSeq(query, i, i + 3)) = <<"f", "r", "o", "m">>


(***************************************************************************)
(* C18: every value an extractor stores has no white space at its start or *)
(* end and holds no single or double quote, whatever quotes and spaces the *)
(* query puts around the value.                                            *)
(***************************************************************************)
Clean(value) ==
  /\ \A i \in 1..Len(value) : value[i] \notin QuoteSet
  /\ value # <<>> => Head(value) \notin WhiteSpace /\ value[Len(value)] \notin WhiteSpace

C18_StoredValuesAreClean ==
  /\ op = "parseUserQuery" =>
       \/ \A k \in DOMAIN parsed : Clean(parsed[k])
       \/ Firing(query) = {}
  /\ op \in {"extracting", "extracted"} => \A k \in DOMAIN filters : Clean(filters[k])

\* The value stands between quotes, with a space after the opening quote and
\* a space after the closing one; the stored value is the bare word.
C18_Witness ==
  /\ op = "parseUserQuery"
  /\ \E i, j \in 1..Len(query) :
       /\ i + 1 < j
       /\ query[i] \in QuoteSet /\ query[i + 1] \in WhiteSpace
       /\ query[j] \in QuoteSet /\ j < Len(query)
  /\ parsed = "actors" :> <<"a", "l">>


(***************************************************************************)
(* C19: actors is a multi-value field: a filter on actors keeps a record   *)
(* exactly when one "|"-separated element of the record's actors holds the *)
(* filter value, so a value that spans two elements keeps nothing.         *)
(***************************************************************************)
C19_ActorsMatchWithinOneElement ==
  (op = "filterMovies" /\ DOMAIN filters = {"actors"}) =>
    \A i \in 1..Len(movies) :
      (\E j \in 1..Len(result) : result[j] = movies[i])
        <=> \E e \in Elements(Heap[movies[i]].actors) :
              ContainsIgnoreCase(e, filters["actors"])


(***************************************************************************)
(* C20: the year extractor takes a connector word as the director, actor   *)
(* and country extractors do: "year is DDDD", "year = DDDD" and            *)
(* "year: DDDD" each give release_year = "DDDD".                           *)
(***************************************************************************)
YearClauses == {<<"y", "e", "a", "r", " ", "i", "s", " ", "1", "9", "9", "5">>, <<"y", "e", "a", "r", " ", "=", " ", "1", "9", "9", "5">>, <<"y", "e", "a", "r", ":", " ", "1", "9", "9", "5">>}

C20_YearTakesConnector ==
  (op = "parseUserQuery" /\ query \in YearClauses) =>
    /\ "release_year" \in DOMAIN parsed
    /\ parsed["release_year"] = <<"1", "9", "9", "5">>


(***************************************************************************)
(* C21: in a query of two field clauses each extractor stores the text of  *)
(* its own clause only: "director X year DDDD" gives director_name = X and *)
(* release_year = DDDD, "genre G director X" gives genre = G and           *)
(* director_name = X.                                                      *)
(***************************************************************************)
Has(F, key, value) == key \in DOMAIN F /\ F[key] = value

C21_ClausesStayApart ==
  /\ (op = "parseUserQuery" /\ query = <<"d", "i", "r", "e", "c", "t", "o", "r", " ", "a", "l", " ", "y", "e", "a", "r", " ", "1", "9", "9", "5">>) =>
       Has(parsed, "director_name", <<"a", "l">>) /\ Has(parsed, "release_year", <<"1", "9", "9", "5">>)
  /\ (op = "parseUserQuery" /\ query = <<"g", "e", "n", "r", "e", " ", "d", "r", "a", "m", "a", " ", "d", "i", "r", "e", "c", "t", "o", "r", " ", "a", "l">>) =>
       Has(parsed, "genre", <<"d", "r", "a", "m", "a">>) /\ Has(parsed, "director_name", <<"a", "l">>)


(***************************************************************************)
(* C22: for a query "actor N", N a name of letters and spaces, that is no  *)
(* record's title, searchMovies returns every record whose actors hold N,  *)
(* also when N holds the letters of another trigger word ("in" inside      *)
(* "Pacino").                                                              *)
(***************************************************************************)
ActorWord == <<"a", "c", "t", "o", "r", " ">>

\* q is "actor " followed by a name of letters and spaces
ActorQuery(q) ==
  /\ Len(q) > Len(ActorWord)
  /\ SubSeq(q, 1, Len(ActorWord)) = ActorWord
  /\ \A i \in (Len(ActorWord) + 1)..Len(q) : q[i] \in LowerSet \cup UpperSet \cup WhiteSpace

ActorName(q) == SubSeq(q, Len(ActorWord) + 1, Len(q))

C22_ActorSearchComplete ==
  (op = "searchMovies" /\ ActorQuery(query) /\ TitleHits = {}) =>
    \A i \in Positions(movies) :
      ContainsIgnoreCase(Heap[movies[i]].actors, ActorName(query))
        => \E j \in Positions(result) : result[j] = movies[i]


(***************************************************************************)
(* C23: a trigger word counts only as a whole word.  A query that holds an *)
(* extractor's trigger words only inside longer words gets no entry from   *)
(* that extractor, and a single word without a whole-word trigger gets the *)
(* fallback classification.                                                *)
(***************************************************************************)
TriggerWords ==
  [genre         |-> {<<"g", "e", "n", "r", "e">>, <<"g", "e", "n", "r", "e", "s">>},
   movie_name    |-> {<<"m", "o", "v", "i", "e">>, <<"f", "i", "l", "m">>, <<"t", "i", "t", "l", "e">>},
   director_name |-> {<<"d", "i", "r", "e", "c", "t", "o", "r">>},
   actors        |-> {<<"a", "c", "t", "o", "r">>, <<"s", "t", "a", "r">>, <<"c", "a", "s", "t">>},
   release_year  |-> {<<"y", "e", "a", "r">>, <<"r", "e", "l", "e", "a", "s", "e", "d">>, <<"f", "r", "o", "m">>},
   country       |-> {<<"c", "o", "u", "n", "t", "r", "y">>, <<"f", "r", "o", "m">>},
   language      |-> {<<"l", "a", "n", "g", "u", "a", "g", "e">>, <<"i", "n">>},
   plot_keyword  |-> {<<"k", "e", "y", "w", "o", "r", "d">>, <<"a", "b", "o", "u", "t">>, <<"p", "l", "o", "t">>, <<"t", "h", "e", "m", "e">>}]

IsLetter(c) == c \in LowerSet \cup UpperSet

\* w stands in q as a word of its own, no letter before or after it
WholeWord(q, w) ==
  \E i \in 1..(Len(q) - Len(w) + 1) :
    /\ EqualsIgnoreCase(SubSeq(q, i, i + Len(w) - 1), w)
    /\ i = 1 \/ ~IsLetter(q[i - 1])
    /\ i + Len(w) > Len(q) \/ ~IsLetter(q[i + Len(w)])

\* the result of the fallback: the trimmed query under genre or movie_name
IsFallback(F, q) ==
  \E k \in {"genre", "movie_name"} : F = k :> Stripped(q)

C23_TriggersAreWholeWords ==
  op = "parseUserQuery" =>
    \A k \in DOMAIN parsed :
      (\A w \in TriggerWords[k] : ~WholeWord(query, w)) => IsFallback(parsed, query)


(***************************************************************************)
(* C24: no entry of a FilterSet returned by parseUserQuery holds the empty *)
(* string: a trigger word followed only by white space or by characters    *)
(* its pattern does not take sets no field.                                *)
(***************************************************************************)
C24_NoEmptyValue ==
  op = "parseUserQuery" => \A k \in DOMAIN parsed : parsed[k] # <<>>


(***************************************************************************)
(* C25: for an empty query or one of white space only, parseUserQuery      *)
(* returns the empty FilterSet and searchMovies returns the whole catalog, *)
(* every record in catalog order (no record's title being the query).      *)
(***************************************************************************)
C25_BlankQueryReturnsCatalog ==
  (op = "searchMovies" /\ Stripped(query) = <<>> /\ TitleHits = {}) =>
    /\ parsed = NoFilters
    /\ result = movies
    /\ after.movies = movies

C25_Witness ==
  /\ op = "searchMovies"
  /\ query = <<" ", " ">>
  /\ Len(movies) = MaxMovies
  /\ branch = "general"
  /\ result = movies

\* the same for the empty query
C25_EmptyWitness ==
  /\ op = "searchMovies"
  /\ query = <<>>
  /\ Len(movies) = MaxMovies
  /\ result = movies


(***************************************************************************)
(* C26: every record searchMovies or filterMovies returns is a record of   *)
(* the list it was given, and no record is returned more often than the    *)
(* list holds it, on each of the four branches of searchMovies.            *)
(***************************************************************************)
Count(list, m) == Cardinality({i \in Positions(list) : list[i] = m})

C26_ResultsComeFromInput ==
  op \in {"searchMovies", "filterMovies", "filterResult"} =>
    \A j \in Positions(result) :
      Count(result, result[j]) <= Count(movies, result[j])

\* The title-only branch returns two of three records, in another order than
\* the catalog's.
C26_Witness ==
  /\ op = "searchMovies"
  /\ branch = "title"
  /\ Len(movies) = 3
  /\ Len(result) = 2
  /\ \E i, j \in Positions(movies) :
       i < j /\ result = <<movies[j], movies[i]>>

\* each of the other branches, and filterMovies, returning some records and
\* not others
C26_BranchWitness ==
  /\ op = "searchMovies"
  /\ branch \in {"exact", "actor", "general"}
  /\ Len(result) >= 1
  /\ Len(result) < Len(movies)


(***************************************************************************)
(* C27: toggleFavoriteAction calls made one after the other: the boolean a *)
(* call returns tells whether the pair is a favorite after it, each call   *)
(* flips the membership, and two calls in a row restore it, with either    *)
(* dbClient.                                                               *)
(***************************************************************************)
C27_ToggleFlipsMembership ==
  \A k \in 1..Len(calls) :
    calls[k].pc = "done" =>
      /\ calls[k].returned = calls[k].after
      /\ calls[k].after # calls[k].before
      /\ (/\ k > 1
          /\ calls[k - 1].userId = calls[k].userId
          /\ calls[k - 1].movieId = calls[k].movieId)
           => calls[k].after = calls[k - 1].before

(***************************************************************************)
(* C28: two toggleFavoriteAction calls for the same pair that overlap end  *)
(* as two calls in a row do: the membership is what it was before them and *)
(* they return opposite booleans.                                          *)
(***************************************************************************)
C28_OverlappingTogglesNotLost ==
  (/\ client = "indexedDB"
   /\ Len(calls) = 2
   /\ AllDone
   /\ calls[1].userId = calls[2].userId
   /\ calls[1].movieId = calls[2].movieId) =>
    /\ IsFavorite(favorites, calls[1].userId, calls[1].movieId) = calls[1].before
    /\ calls[1].returned # calls[2].returned


(***************************************************************************)
(* C29: every getDB call that resolves, also one made while the first call *)
(* is opening or seeding the database, gives a movies store that holds all *)
(* the seed records, and no call fails because records are added twice.    *)
(***************************************************************************)
C29_DatabaseSeededBeforeUse ==
  \A k \in 1..Len(getters) :
    /\ getters[k].pc = "resolved" => getters[k].seen = SeedCount
    /\ getters[k].pc # "rejected"


(***************************************************************************)
(* C30: a signIn with an email that has no account, or with a password     *)
(* whose hash is not the stored one, returns an error, leaves last_login,  *)
(* the user in memory and the stored session entry as they were; the       *)
(* session user is set only after a password match and never holds the     *)
(* password; isLoading is false once signIn has finished, on every path.   *)
(***************************************************************************)
\* the account the call's email had when the call began, NoUser if none
AccountAtStart ==
  IF signin.email \in DOMAIN signin.held.users
  THEN signin.held.users[signin.email] ELSE NoUser

PasswordMatches ==
  /\ AccountAtStart # NoUser
  /\ AccountAtStart.password = hashPassword(signin.password)

C30_FailedSignInChangesNothing ==
  /\ "password" \notin DOMAIN user
  /\ "password" \notin DOMAIN session
  /\ signin.pc = "returned" =>
       /\ ~PasswordMatches =>
            /\ signin.error # "null"
            /\ users = signin.held.users
            /\ user = signin.held.user
            /\ session = signin.held.session
       /\ (user # signin.held.user \/ session # signin.held.session) => PasswordMatches
       /\ ~isLoading

\* Signed in as one account, a signIn to the other account with the wrong
\* password has returned.
C30_Witness ==
  /\ signin.pc = "returned"
  /\ signin.error = "Invalid password"
  /\ user # NoUser
  /\ user.email # signin.email
  /\ session = user
  /\ ~isLoading

\* a signIn for an email without account, and one that succeeded
C30_NoAccountWitness ==
  /\ signin.pc = "returned"
  /\ signin.email \notin DOMAIN users
  /\ users # <<>>

C30_SuccessWitness ==
  /\ signin.pc = "returned"
  /\ signin.error = "null"
  /\ signin.held.user = NoUser
  /\ user.email = signin.email
  /\ users[signin.email].last_login = now


====
